---- MODULE Spec2Model ----
(***************************************************************************)
(* Streak tracker: the screen of src/app/(tabs)/index.tsx bound to the     *)
(* SQLite table "streaks", with the drag-to-reorder caller of              *)
(* src/unnamed/part_000.                                                    *)
(*                                                                         *)
(* Dates are day numbers: the ISO date of day d is the number d, and the   *)
(* empty string '' is 0, so that SQLite's text comparison '' < any date    *)
(* and date < date is the comparison of the numbers.                       *)
(* Every SQL statement is one atomic step of the database; the code that   *)
(* runs after an await runs in the step that executes the awaited          *)
(* statement, up to the next statement it issues.                          *)
(***************************************************************************)
EXTENDS Bags, FiniteSets, Integers, Sequences, TLC

\* ---- bounds ----
MaxDay == 3
MaxId == 2
MaxTasks == 2
MaxOps == 4
MaxLifeOps == 7
MaxOrderOps == 5
MaxFailOps == 4

\* ---- texts the user can type: sequences of characters ----
Texts == {<<>>, <<" ">>, <<"a">>, <<" ", "b">>}

NULL == 0

VARIABLES
  clock,      \* the calendar day of the device
  today,      \* const today of the last render (index.tsx:43)
  db,         \* module-level handle: TRUE once openDatabaseAsync resolved
  boot,       \* position of the mount effect (index.tsx:37-41)
  mountToday, \* today of the render whose effect runs the start-up sweep
  table,      \* the rows of the table streaks, by id
  nextId,     \* AUTOINCREMENT sequence of the table
  streaks,    \* React state: the displayed list
  editingId,  \* React state: id of the row being renamed, or NULL
  notice,     \* TRUE once Alert 'Already continued today!' was raised
  tasks,      \* bag of statements issued to the database and not yet resolved
  ops,        \* gestures, midnights and relaunches the run may still make
  created,    \* the table streaks exists in streaks.db
  hist,       \* history of each stored streak, read by the properties only
  rejected    \* a create or rename returned at its test of the trimmed name

vars == <<clock, today, db, boot, mountToday, table, nextId, streaks,
          editingId, notice, tasks, ops, created, hist, rejected>>

\* ---- pure helpers ----

RECURSIVE TrimStart(_)
TrimStart(s) ==
  IF s # <<>> /\ Head(s) = " " THEN TrimStart(Tail(s)) ELSE s

RECURSIVE TrimEnd(_)
TrimEnd(s) ==
  IF s # <<>> /\ s[Len(s)] = " " THEN TrimEnd(SubSeq(s, 1, Len(s) - 1)) ELSE s

trim(s) == TrimEnd(TrimStart(s))

SetMax(S) == CHOOSE x \in S : \A y \in S : y <= x

\* the ORDER BY without the starred key
OrderByBefore_NoStarred(x, y) ==
  \/ x.order < y.order
  \/ x.order = y.order /\ x.id > y.id

\* ORDER BY starred DESC, "order" ASC, id DESC
OrderByBefore(x, y) ==
  \/ x.starred > y.starred
  \/ /\ x.starred = y.starred
     /\ \/ x.order < y.order
        \/ x.order = y.order /\ x.id > y.id

RECURSIVE SortRows(_)
SortRows(S) ==
  IF S = {} THEN <<>>
  ELSE LET r == CHOOSE x \in S : \A y \in S \ {x} : OrderByBefore(x, y)
       IN <<r>> \o SortRows(S \ {r})

\* SELECT * FROM streaks ORDER BY ...
SelectAll(tbl) == SortRows({tbl[i] : i \in DOMAIN tbl})

\* the next order counted from 0: the + 1 applied to a maximum only
NextOrderOf_FromZero(tbl) ==
  IF DOMAIN tbl = {} THEN 0
  ELSE SetMax({tbl[i].order : i \in DOMAIN tbl}) + 1

\* SELECT MAX("order") as maxOrder, then (res?.maxOrder ?? 0) + 1
NextOrderOf(tbl) ==
  LET maxOrder == IF DOMAIN tbl = {} THEN NULL
                  ELSE SetMax({tbl[i].order : i \in DOMAIN tbl})
  IN maxOrder + 1

\* the WHERE clause without last_updated != ''
SweepMatches_NoEmptyTest(r, day) == r.last_updated < day /\ r.alive = 1

\* WHERE last_updated != '' AND last_updated < ? AND alive = 1
SweepMatches(r, day) == r.last_updated # 0 /\ r.last_updated < day /\ r.alive = 1

\* a new row that starts with one day counted
NewRow_Counted(id, name, order) ==
  [id |-> id, name |-> name, count |-> 1, last_updated |-> 0, alive |-> 1,
   order |-> order, starred |-> 0]

\* new row of the INSERT statement
NewRow(id, name, order) ==
  [id |-> id, name |-> name, count |-> 0, last_updated |-> 0, alive |-> 1,
   order |-> order, starred |-> 0]

\* UPDATE streaks SET <field> = v WHERE id = ?  (no row: nothing changes)
UpdateWhereId(tbl, id, upd(_)) ==
  [i \in DOMAIN tbl |-> IF i = id THEN upd(tbl[i]) ELSE tbl[i]]

\* a key without AUTOINCREMENT: one more than the greatest stored id
NewId_MaxRowid(tbl, seq) ==
  IF DOMAIN tbl = {} THEN 1 ELSE SetMax(DOMAIN tbl) + 1

\* id INTEGER PRIMARY KEY AUTOINCREMENT: the next value of the table's sequence
NewId(tbl, seq) == seq

\* a DELETE that lost its WHERE clause
DeleteWhereId_NoWhere(tbl, id) == <<>>

\* DELETE FROM streaks WHERE id = ?  (no row: nothing changes)
DeleteWhereId(tbl, id) == [i \in DOMAIN tbl \ {id} |-> tbl[i]]

\* ---- statements in flight ----

Task(op, id, num, day, name, ids, rows) ==
  [op |-> op, id |-> id, num |-> num, day |-> day, name |-> name,
   ids |-> ids, rows |-> rows]

Stmt(op, id, num, day) == Task(op, id, num, day, <<>>, <<>>, <<>>)

\* fetchStreaks up to its await: the SELECT is issued
FetchIssued == Stmt("fetchStreaks", NULL, 0, 0)

Issue(t) == tasks' = tasks (+) SetToBag({t})
Replace(t, u) == tasks' = (tasks (-) SetToBag({t})) (+) SetToBag({u})
Resolve(t) == tasks' = tasks (-) SetToBag({t})
InFlight == BagToSet(tasks)
Room == BagCardinality(tasks) < MaxTasks
PendingInserts ==
  BagCardinality([t \in {u \in InFlight : u.op \in {"getNextOrder", "insert"}}
                    |-> tasks[t]])

\* ---- history ----
\* phase:  "asked"  continueStreak was called on day, with no continue or
\*                  cancel of the streak in flight
\*         "ran"    and its UPDATE ran on that day, when the stored
\*                  last_updated was not that day; pre is the stored count
\*                  before it
\*         "cancel" and then cancelTodayInput was called on that day, with no
\*                  other continue or cancel of the streak called or in flight
\*                  in between
\*         "none"   otherwise
\* ran:    the day the last UPDATE of count ran, if it was a continue; else 0
\* missed: a day has ended on which the streak was alive with count >= 1 and
\*         its last UPDATE of count was not a continue of that day
\* dawn:   the stored count when the current day began (0 for a streak
\*         created on the current day)
NoHistory ==
  [phase |-> "none", day |-> 0, pre |-> -1, ran |-> 0, missed |-> FALSE,
   dawn |-> 0]

Forget(h) == [h EXCEPT !.phase = "none", !.day = 0, !.pre = -1]

\* a continue or cancel of the streak is in flight
PendingOn(id) ==
  \E t \in InFlight : t.op \in {"continueStreak", "cancelTodayInput"} /\ t.id = id

HistAt(id, f(_)) ==
  hist' = [i \in DOMAIN hist |-> IF i = id THEN f(hist[i]) ELSE hist[i]]

InitWith(budget) ==
  /\ clock = 1
  /\ today = 1
  /\ db = FALSE
  /\ boot = "open"
  /\ mountToday = 1
  /\ table = <<>>
  /\ nextId = 1
  /\ streaks = <<>>
  /\ editingId = NULL
  /\ notice = FALSE
  /\ tasks = EmptyBag
  /\ ops = budget
  /\ created = FALSE
  /\ hist = <<>>
  /\ rejected = FALSE

Init == InitWith(MaxOps)


\* ---- clock and rendering ----

\* midnight passes
Tick ==
  /\ clock < MaxDay
  /\ clock' = clock + 1
  /\ ops > 0 /\ ops' = ops - 1
  /\ hist' = [i \in DOMAIN hist |->
               [hist[i] EXCEPT !.missed =
                  \/ @
                  \/ /\ table[i].alive = 1 /\ table[i].count >= 1
                     /\ hist[i].ran # clock /\ ~PendingOn(i),
                               !.dawn = table[i].count]]
  /\ UNCHANGED <<created, rejected, today, db, boot, mountToday, table, nextId, streaks,
                 editingId, notice, tasks>>

\* a re-render not caused by the list: opening the modal or typing in it
\* (setModalVisible, setNewStreakText, setEditingText) recomputes today
Render ==
  /\ today # clock
  /\ today' = clock
  /\ UNCHANGED <<created, rejected, hist, ops, clock, db, boot, mountToday, table, nextId, streaks,
                 editingId, notice, tasks>>

\* the process is killed and started again: module state and React state are
\* fresh, statements in flight are lost, the table is what was committed
Restart ==
  /\ boot = "done"
  /\ db' = FALSE
  /\ boot' = "open"
  /\ today' = clock
  /\ mountToday' = clock
  /\ streaks' = <<>>
  /\ editingId' = NULL
  /\ notice' = FALSE
  /\ tasks' = EmptyBag
  /\ UNCHANGED <<clock, table, nextId, created, rejected, hist>>
  /\ ops > 0 /\ ops' = ops - 1

\* ---- start-up: useEffect -> setupDatabase -> checkStreakStatus -> fetchStreaks ----

\* db = await SQLite.openDatabaseAsync(...) resolves; CREATE TABLE is issued
OpenDatabase ==
  /\ boot = "open"
  /\ db' = TRUE
  /\ boot' = "schema"
  /\ UNCHANGED <<created, rejected, hist, ops, clock, today, mountToday, table, nextId, streaks, editingId,
                 notice, tasks>>

\* CREATE TABLE IF NOT EXISTS and the two ALTER TABLE statements resolve (no
\* row changes); checkStreakStatus of the mount render issues its UPDATE
SchemaReady ==
  /\ boot = "schema"
  /\ boot' = "done"
  /\ created' = TRUE
  /\ Issue(Stmt("checkStreakStatus", NULL, 0, mountToday))
  /\ UNCHANGED <<rejected, hist, ops, clock, today, db, mountToday, table, nextId, streaks,
                 editingId, notice>>

\* UPDATE streaks SET alive = 0 WHERE ...; then(fetchStreaks)
checkStreakStatus(tbl, day) ==
  [i \in DOMAIN tbl |->
     IF SweepMatches(tbl[i], day) THEN [tbl[i] EXCEPT !.alive = 0] ELSE tbl[i]]

ExecSweep ==
  \E t \in InFlight :
    /\ t.op = "checkStreakStatus"
    /\ table' = checkStreakStatus(table, t.day)
    /\ Replace(t, FetchIssued)
    /\ UNCHANGED <<created, rejected, hist, ops, clock, today, db, boot, mountToday, nextId, streaks,
                   editingId, notice>>

\* ---- fetchStreaks ----

\* the SELECT runs: results are the rows in display order
ExecSelect ==
  \E t \in InFlight :
    /\ t.op = "fetchStreaks"
    /\ Replace(t, Task("setStreaks", NULL, 0, 0, <<>>, <<>>, SelectAll(table)))
    /\ UNCHANGED <<created, rejected, hist, ops, clock, today, db, boot, mountToday, table, nextId, streaks,
                   editingId, notice>>

\* the await resolves: setStreaks(results), and the screen renders again
SetStreaks ==
  \E t \in InFlight :
    /\ t.op = "setStreaks"
    /\ streaks' = t.rows
    /\ today' = clock
    /\ Resolve(t)
    /\ UNCHANGED <<created, rejected, hist, ops, clock, db, boot, mountToday, table, nextId, editingId,
                   notice>>

\* ---- create ----

\* a create that tests the text and not the trimmed text
handleAddStreak_NoTrim(newStreakText) ==
  /\ db
  /\ IF newStreakText = <<>>
       THEN /\ rejected' = TRUE
            /\ UNCHANGED <<tasks, ops>>
       ELSE /\ Room
            /\ nextId + PendingInserts <= MaxId
            /\ Issue(Task("getNextOrder", NULL, 0, 0, trim(newStreakText), <<>>, <<>>))
            /\ ops > 0 /\ ops' = ops - 1
            /\ UNCHANGED rejected
  /\ UNCHANGED <<clock, today, db, boot, mountToday, table, nextId, streaks,
                 editingId, notice, created, hist>>

\* if (!db || !newStreakText.trim()) return; then getNextOrder is called
handleAddStreak(newStreakText) ==
  /\ db
  /\ IF trim(newStreakText) = <<>>
       THEN /\ rejected' = TRUE
            /\ UNCHANGED <<tasks, ops>>
       ELSE /\ Room
            /\ nextId + PendingInserts <= MaxId
            /\ Issue(Task("getNextOrder", NULL, 0, 0, trim(newStreakText), <<>>, <<>>))
            /\ ops > 0 /\ ops' = ops - 1
            /\ UNCHANGED rejected
  /\ UNCHANGED <<clock, today, db, boot, mountToday, table, nextId, streaks,
                 editingId, notice, created, hist>>

\* getNextOrder resolves with MAX("order") + 1; the INSERT is issued
ExecGetNextOrder ==
  \E t \in InFlight :
    /\ t.op = "getNextOrder"
    /\ created
    /\ Replace(t, Task("insert", NULL, NextOrderOf(table), 0, t.name, <<>>, <<>>))
    /\ UNCHANGED <<created, rejected, hist, ops, clock, today, db, boot, mountToday, table, nextId, streaks,
                   editingId, notice>>

\* on the first launch the SELECT can run before CREATE TABLE has: it fails,
\* handleAddStreak's promise rejects and nothing else of it runs
FailGetNextOrder ==
  \E t \in InFlight :
    /\ t.op = "getNextOrder"
    /\ ~created
    /\ Resolve(t)
    /\ UNCHANGED <<created, rejected, hist, ops, clock, today, db, boot, mountToday, table,
                   nextId, streaks, editingId, notice>>

\* the INSERT runs; setNewStreakText(''), setModalVisible(false), fetchStreaks()
ExecInsert ==
  \E t \in InFlight :
    /\ t.op = "insert"
    /\ LET id == NewId(table, nextId) IN
         /\ table' = table @@ (id :> NewRow(id, t.name, t.num))
         /\ hist' = hist @@ (id :> NoHistory)
    /\ nextId' = nextId + 1
    /\ today' = clock
    /\ Replace(t, FetchIssued)
    /\ UNCHANGED <<created, rejected, ops, clock, db, boot, mountToday, streaks, editingId, notice>>

\* ---- continue / cancel today ----

continueStreak(id, last_updated, count) ==
  /\ db
  /\ IF last_updated = today
       THEN notice' = TRUE /\ UNCHANGED tasks
       ELSE Issue(Stmt("continueStreak", id, count + 1, today)) /\ UNCHANGED notice

\* a cancel that decrements count and forgets to clear last_updated
cancelTodayInput_KeepsDate(id, last_updated, count) ==
  /\ db
  /\ last_updated = today
  /\ Issue(Stmt("cancelTodayInput", id, count - 1, last_updated))
  /\ UNCHANGED notice

cancelTodayInput(id, last_updated, count) ==
  /\ db
  /\ last_updated = today
  /\ Issue(Stmt("cancelTodayInput", id, count - 1, 0))
  /\ UNCHANGED notice

\* disabled={isDead}
CardEnabled(item) == item.alive # 0

\* TouchableOpacity onPress of the card (index.tsx:204-215)
PressCard ==
  \E k \in 1..Len(streaks) :
    LET item == streaks[k] IN
    /\ item.id # editingId
    /\ CardEnabled(item)
    /\ Room
    /\ IF item.last_updated = today
         THEN /\ cancelTodayInput(item.id, item.last_updated, item.count)
              /\ LET f(h) == IF h.phase = "ran" /\ h.day = clock /\ ~PendingOn(item.id)
                                THEN [h EXCEPT !.phase = "cancel"] ELSE Forget(h)
                 IN HistAt(item.id, f)
         ELSE /\ continueStreak(item.id, item.last_updated, item.count)
              /\ LET f(h) == IF ~PendingOn(item.id)
                                THEN [h EXCEPT !.phase = "asked", !.day = clock, !.pre = -1]
                                ELSE Forget(h)
                 IN HistAt(item.id, f)
    /\ UNCHANGED <<clock, today, db, boot, mountToday, table, nextId, streaks,
                   editingId, created, rejected>>
    /\ ops > 0 /\ ops' = ops - 1

\* an UPDATE that writes the whole row back, the star at its default
SetCount_WholeRow(tbl, id, count, last_updated) ==
  LET upd(r) == [r EXCEPT !.count = count, !.last_updated = last_updated,
                          !.starred = 0]
  IN UpdateWhereId(tbl, id, upd)

\* UPDATE streaks SET count = ?, last_updated = ? WHERE id = ?
SetCount(tbl, id, count, last_updated) ==
  LET upd(r) == [r EXCEPT !.count = count, !.last_updated = last_updated]
  IN UpdateWhereId(tbl, id, upd)

ExecContinue ==
  \E t \in InFlight :
    /\ t.op = "continueStreak"
    /\ table' = SetCount(table, t.id, t.num, t.day)
    /\ LET f(h) == IF h.phase = "asked" /\ h.day = clock
                         /\ table[t.id].last_updated # clock
                      THEN [h EXCEPT !.phase = "ran", !.pre = table[t.id].count,
                                     !.ran = clock]
                      ELSE Forget([h EXCEPT !.ran = clock])
       IN HistAt(t.id, f)
    /\ Replace(t, FetchIssued)
    /\ UNCHANGED <<created, rejected, ops, clock, today, db, boot, mountToday, nextId, streaks,
                   editingId, notice>>

ExecCancel ==
  \E t \in InFlight :
    /\ t.op = "cancelTodayInput"
    /\ table' = SetCount(table, t.id, t.num, t.day)
    /\ LET f(h) == Forget([h EXCEPT !.ran = 0])
       IN HistAt(t.id, f)
    /\ Replace(t, FetchIssued)
    /\ UNCHANGED <<created, rejected, ops, clock, today, db, boot, mountToday, nextId, streaks,
                   editingId, notice>>

\* ---- delete ----

\* the second tap within 300 ms on the trash icon (index.tsx:246-266)
deleteStreak ==
  \E k \in 1..Len(streaks) :
    /\ streaks[k].id # editingId
    /\ db
    /\ Room
    /\ Issue(Stmt("deleteStreak", streaks[k].id, 0, 0))
    /\ UNCHANGED <<clock, today, db, boot, mountToday, table, nextId, streaks,
                   editingId, notice>>
    /\ ops > 0 /\ ops' = ops - 1 /\ UNCHANGED <<created, rejected, hist>>

\* DELETE FROM streaks WHERE id = ?
ExecDelete ==
  \E t \in InFlight :
    /\ t.op = "deleteStreak"
    /\ table' = DeleteWhereId(table, t.id)
    /\ hist' = [i \in DOMAIN hist \ {t.id} |-> hist[i]]
    /\ Replace(t, FetchIssued)
    /\ UNCHANGED <<created, rejected, ops, clock, today, db, boot, mountToday, nextId, streaks,
                   editingId, notice>>

\* ---- rename ----

\* the pencil: setEditingId(id); setEditingText(name)
editStreak ==
  \E k \in 1..Len(streaks) :
    /\ streaks[k].id # editingId
    /\ editingId' = streaks[k].id
    /\ today' = clock
    /\ ops > 0 /\ ops' = ops - 1 /\ UNCHANGED <<created, rejected, hist>>
    /\ UNCHANGED <<clock, db, boot, mountToday, table, nextId, streaks,
                   notice, tasks>>

\* the row in edit mode is on screen
EditRowShown == \E k \in 1..Len(streaks) : streaks[k].id = editingId

cancelEditStreak ==
  /\ EditRowShown
  /\ editingId' = NULL
  /\ today' = clock
  /\ ops > 0 /\ ops' = ops - 1 /\ UNCHANGED <<created, rejected, hist>>
  /\ UNCHANGED <<clock, db, boot, mountToday, table, nextId, streaks,
                 notice, tasks>>

\* if (editingId !== null && db && editingText.trim()) { UPDATE ... }
saveEditStreak(editingText) ==
  /\ EditRowShown
  /\ editingId # NULL /\ db
  /\ IF trim(editingText) = <<>>
       THEN /\ rejected' = TRUE
            /\ UNCHANGED <<tasks, ops>>
       ELSE /\ Room
            /\ Issue(Task("saveEditStreak", editingId, 0, 0, trim(editingText), <<>>, <<>>))
            /\ ops > 0 /\ ops' = ops - 1
            /\ UNCHANGED rejected
  /\ UNCHANGED <<clock, today, db, boot, mountToday, table, nextId, streaks,
                 editingId, notice, created, hist>>

\* UPDATE streaks SET name = ? WHERE id = ?; setEditingId(null); fetchStreaks()
ExecRename ==
  \E t \in InFlight :
    /\ t.op = "saveEditStreak"
    /\ LET upd(r) == [r EXCEPT !.name = t.name]
       IN table' = UpdateWhereId(table, t.id, upd)
    /\ editingId' = NULL
    /\ today' = clock
    /\ Replace(t, FetchIssued)
    /\ UNCHANGED <<created, rejected, hist, ops, clock, db, boot, mountToday, nextId, streaks, notice>>

\* ---- star ----

toggleStarred ==
  \E k \in 1..Len(streaks) :
    LET item == streaks[k] IN
    /\ item.id # editingId
    /\ db
    /\ Room
    /\ Issue(Stmt("toggleStarred", item.id, IF item.starred # 0 THEN 0 ELSE 1, 0))
    /\ UNCHANGED <<clock, today, db, boot, mountToday, table, nextId, streaks,
                   editingId, notice>>
    /\ ops > 0 /\ ops' = ops - 1 /\ UNCHANGED <<created, rejected, hist>>

\* UPDATE streaks SET starred = ? WHERE id = ?
ExecStar ==
  \E t \in InFlight :
    /\ t.op = "toggleStarred"
    /\ LET upd(r) == [r EXCEPT !.starred = t.num]
       IN table' = UpdateWhereId(table, t.id, upd)
    /\ Replace(t, FetchIssued)
    /\ UNCHANGED <<created, rejected, hist, ops, clock, today, db, boot, mountToday, nextId, streaks,
                   editingId, notice>>

\* ---- reorder ----

\* the list after the row at position from is dropped at position to
Move(list, from, to) ==
  LET rest == SubSeq(list, 1, from - 1) \o SubSeq(list, from + 1, Len(list))
  IN SubSeq(rest, 1, to - 1) \o <<list[from]>> \o SubSeq(rest, to, Len(rest))

\* onDragEnd: setStreaks(data); updateStreakOrder(data) up to its first await
onDragEnd ==
  \E from \in 1..Len(streaks), to \in 1..Len(streaks) :
    LET data == Move(streaks, from, to) IN
    /\ streaks[from].id # editingId
    /\ db
    /\ Room
    /\ streaks' = data
    /\ today' = clock
    /\ Issue(Task("updateStreakOrder", NULL, 0, 0, <<>>,
                  [i \in 1..Len(data) |-> data[i].id], <<>>))
    /\ UNCHANGED <<clock, db, boot, mountToday, table, nextId, editingId,
                   notice>>
    /\ ops > 0 /\ ops' = ops - 1 /\ UNCHANGED <<created, rejected, hist>>

\* one pass of the loop: UPDATE streaks SET "order" = i WHERE id = data[i].id;
\* after the last one, fetchStreaks()
updateStreakOrder ==
  \E t \in InFlight :
    /\ t.op = "updateStreakOrder"
    /\ LET upd(r) == [r EXCEPT !.order = t.num]
       IN table' = UpdateWhereId(table, t.ids[t.num + 1], upd)
    /\ IF t.num + 1 < Len(t.ids)
         THEN Replace(t, [t EXCEPT !.num = t.num + 1])
         ELSE Replace(t, FetchIssued)
    /\ UNCHANGED <<created, rejected, hist, ops, clock, today, db, boot, mountToday, nextId, streaks,
                   editingId, notice>>

Next ==
  \/ Tick
  \/ Render
  \/ Restart
  \/ OpenDatabase
  \/ SchemaReady
  \/ ExecSweep
  \/ ExecSelect
  \/ SetStreaks
  \/ \E text \in Texts : handleAddStreak(text)
  \/ ExecGetNextOrder
  \/ FailGetNextOrder
  \/ ExecInsert
  \/ PressCard
  \/ ExecContinue
  \/ ExecCancel
  \/ deleteStreak
  \/ ExecDelete
  \/ editStreak
  \/ cancelEditStreak
  \/ \E text \in Texts : saveEditStreak(text)
  \/ ExecRename
  \/ toggleStarred
  \/ ExecStar
  \/ onDragEnd
  \/ updateStreakOrder

Spec == Init /\ [][Next]_vars

\* ---- the life cycle alone: one text, no rename, star, delete or reorder ----

NextLife ==
  \/ Tick
  \/ Render
  \/ Restart
  \/ OpenDatabase
  \/ SchemaReady
  \/ ExecSweep
  \/ ExecSelect
  \/ SetStreaks
  \/ handleAddStreak(<<"a">>)
  \/ ExecGetNextOrder
  \/ FailGetNextOrder
  \/ ExecInsert
  \/ PressCard
  \/ ExecContinue
  \/ ExecCancel

SpecLife == InitWith(MaxLifeOps) /\ [][NextLife]_vars

\* ---- the order of the list alone: one day, no continue, cancel or rename ----

NextOrder ==
  \/ OpenDatabase
  \/ SchemaReady
  \/ ExecSweep
  \/ ExecSelect
  \/ SetStreaks
  \/ handleAddStreak(<<"a">>)
  \/ ExecGetNextOrder
  \/ FailGetNextOrder
  \/ ExecInsert
  \/ deleteStreak
  \/ ExecDelete
  \/ toggleStarred
  \/ ExecStar
  \/ onDragEnd
  \/ updateStreakOrder

SpecOrder == InitWith(MaxOrderOps) /\ [][NextOrder]_vars

\* ---- storage failures: no handler has a try/catch, the effect no .catch ----

\* openDatabaseAsync rejects: setupDatabase rejects before db is assigned and
\* the then() of the mount effect never runs
FailOpen ==
  /\ boot = "open"
  /\ boot' = "failed"
  /\ UNCHANGED <<clock, today, db, mountToday, table, nextId, streaks, editingId,
                 notice, tasks, ops, created, hist, rejected>>

\* CREATE TABLE rejects: setupDatabase rejects with db assigned, and the
\* then() of the mount effect never runs
FailSchema ==
  /\ boot = "schema"
  /\ boot' = "failed"
  /\ UNCHANGED <<clock, today, db, mountToday, table, nextId, streaks, editingId,
                 notice, tasks, ops, created, hist, rejected>>

\* a statement in flight rejects: the await throws, the rest of the handler
\* (its fetchStreaks included) does not run and its promise rejects unhandled
FailStatement ==
  \E t \in InFlight :
    /\ t.op # "setStreaks"
    /\ Resolve(t)
    /\ UNCHANGED <<clock, today, db, boot, mountToday, table, nextId, streaks,
                   editingId, notice, ops, created, hist, rejected>>

\* ---- the life cycle on a store that can fail ----

NextFail ==
  \/ NextLife
  \/ FailOpen
  \/ FailSchema
  \/ FailStatement

SpecFail == InitWith(MaxFailOps) /\ [][NextFail]_vars

TypeOK ==
  /\ clock \in 1..MaxDay
  /\ today \in 1..MaxDay
  /\ db \in BOOLEAN
  /\ nextId \in 1..(MaxId + 1)
  /\ DOMAIN table \subseteq 1..MaxId


\* ---- steps, as the properties see them ----

\* this step issues a statement of handler op for the streak id
Issued(op, id) ==
  \E t \in BagToSet(tasks') :
    t.op = op /\ t.id = id /\ CopiesIn(t, tasks') > CopiesIn(t, tasks)

\* this step runs a statement of handler op for the streak id
Executed(op, id) ==
  /\ boot' = boot
  /\ \E t \in InFlight :
       t.op = op /\ t.id = id /\ CopiesIn(t, tasks') < CopiesIn(t, tasks)

\* ---- C1 ----
\* the streak was continued today and nothing else has been asked of it since:
\* its stored last_updated is the current day and no continue or cancel of it
\* is in flight (under SpecLife continue and cancel are the only operations on
\* a stored streak)
ContinuedToday(id) == table[id].last_updated = clock /\ ~PendingOn(id)

\* C1: a second continue of a streak on the same calendar day, with no other
\* operation on the streak in between, is rejected: no UPDATE is issued for it
\* and the 'Already continued today!' notice is raised, whether or not the
\* displayed list was re-queried after the first continue.
C1_SecondContinueRejected ==
  [][\A id \in DOMAIN table :
       (ContinuedToday(id) /\ Issued("continueStreak", id)) =>
         (notice' /\ tasks' = tasks)]_vars

\* ---- C2 ----
\* C2: for a streak whose last_updated is not today, continue followed by
\* cancelToday on the same day restores count to its value before the continue
\* and leaves last_updated empty.
C2_CancelRestoresCount ==
  [][\A id \in DOMAIN table :
       (hist[id].phase = "cancel" /\ hist[id].day = clock
          /\ Executed("cancelTodayInput", id)) =>
         (table'[id].count = hist[id].pre /\ table'[id].last_updated = 0)]_vars

\* ---- C4 ----
\* C4: no step changes the count or last_updated of a streak whose stored
\* alive flag is false (continue and cancelToday are the only writers of these
\* fields).
C4_DeadIsTerminal ==
  [][\A id \in DOMAIN table \cap DOMAIN table' :
       table[id].alive = 0 =>
         /\ table'[id].count = table[id].count
         /\ table'[id].last_updated = table[id].last_updated]_vars

\* ---- C5 ----
\* C5: once a day has ended on which an alive streak with count >= 1 was not
\* continued (a continue undone by cancelToday does not count), the streak is
\* dead after the next expiry sweep, run with the current day.
C5_MissedDayKills ==
  [][(\E t \in InFlight : t.op = "checkStreakStatus" /\ t.day = clock
                            /\ Executed("checkStreakStatus", NULL)) =>
       \A id \in DOMAIN table : hist[id].missed => table'[id].alive = 0]_vars


\* ---- C3 ----
\* a reorder in flight has renumbered some of the rows it names and not yet
\* the others
PartlyRenumbered ==
  \E r \in InFlight :
    /\ r.op = "updateStreakOrder"
    /\ \E j \in 1..r.num : r.ids[j] \in DOMAIN table
    /\ \E j \in (r.num + 1)..Len(r.ids) : r.ids[j] \in DOMAIN table

\* C3: reorder is atomic with respect to reads: no SELECT of fetchStreaks runs
\* while only some of the rows named by a reorder have been renumbered.
C3_ReorderAtomic ==
  [][Executed("fetchStreaks", NULL) => ~PartlyRenumbered]_vars

\* ---- C6 ----
\* C6: the expiry sweep for day d sets alive = 0 for exactly the streaks with a
\* non-empty last_updated before d and alive = 1; every other streak keeps its
\* alive value, and no other field of any streak changes.
C6_SweepExact ==
  [][\A t \in InFlight :
       (t.op = "checkStreakStatus" /\ Executed("checkStreakStatus", NULL)) =>
         /\ DOMAIN table' = DOMAIN table
         /\ \A id \in DOMAIN table :
              LET r == table[id]
                  dies == r.last_updated \in 1..(t.day - 1) /\ r.alive = 1
              IN table'[id] = [r EXCEPT !.alive = IF dies THEN 0 ELSE r.alive]]_vars

\* a sweep has killed a streak and has spared one that was never continued
C6_Witness ==
  /\ \E id \in DOMAIN table : table[id].alive = 0
  /\ \E id \in DOMAIN table : table[id].alive = 1 /\ table[id].last_updated = 0
  /\ clock > 1

\* ---- C7 ----
SortedByKey(rows) ==
  \A i, j \in 1..Len(rows) :
    i < j =>
      /\ rows[i].starred >= rows[j].starred
      /\ rows[i].starred = rows[j].starred => rows[i].order <= rows[j].order
      /\ (rows[i].starred = rows[j].starred /\ rows[i].order = rows[j].order)
           => rows[i].id > rows[j].id

\* C7: the list a SELECT of fetchStreaks returns holds every stored streak
\* once, sorted by starred descending, then order ascending, then id
\* descending; so every starred streak precedes every unstarred one.
C7_ListSorted ==
  [][\A t \in BagToSet(tasks') :
       (t.op = "setStreaks" /\ CopiesIn(t, tasks') > CopiesIn(t, tasks)) =>
         /\ Len(t.rows) = Cardinality(DOMAIN table)
         /\ {t.rows[i] : i \in 1..Len(t.rows)} = {table[id] : id \in DOMAIN table}
         /\ SortedByKey(t.rows)]_vars

\* a list was returned in which a starred streak precedes an unstarred one of
\* smaller order
C7_Witness ==
  \E t \in InFlight :
    /\ t.op = "setStreaks"
    /\ Len(t.rows) >= 2
    /\ t.rows[1].starred = 1 /\ t.rows[2].starred = 0
    /\ t.rows[1].order > t.rows[2].order

\* ---- C8 ----
\* the rows this step inserts
Inserted == DOMAIN table' \ DOMAIN table

\* C8 as stated: the new streak's order is the maximum order of the existing
\* streaks plus 1, and 0 when there are none.
C8_OrderFromZero ==
  [][\A id \in Inserted :
       table'[id].order =
         IF DOMAIN table = {} THEN 0
         ELSE SetMax({table[i].order : i \in DOMAIN table}) + 1]_vars

\* o is one more than the greatest order stored in tbl, 1 for an empty tbl
OneAboveMax(o, tbl) ==
  IF DOMAIN tbl = {} THEN o = 1
  ELSE /\ \E i \in DOMAIN tbl : tbl[i].order = o - 1
       /\ \A i \in DOMAIN tbl : tbl[i].order <= o - 1

\* C8 amended: create reads the maximum order of the streaks stored at that
\* moment and inserts the new streak with that maximum plus 1, and with 1 when
\* none were stored.
C8_OrderIsMaxAtReadPlusOne ==
  [][/\ \A t \in BagToSet(tasks') :
          (t.op = "insert" /\ CopiesIn(t, tasks') > CopiesIn(t, tasks)) =>
            OneAboveMax(t.num, table)
     /\ \A id \in Inserted :
          \E t \in InFlight :
            /\ t.op = "insert" /\ CopiesIn(t, tasks') < CopiesIn(t, tasks)
            /\ table'[id].order = t.num]_vars

\* two streaks created one after the other from an empty store
C8_Witness ==
  /\ DOMAIN table = {1, 2}
  /\ table[1].order = 1 /\ table[2].order = 2

\* ---- C9 ----
\* C9: when a reorder whose ids are a permutation of all stored ids completes,
\* the streak at position i (from 0) has order i, and with no streak starred
\* the list reads the ids in the given sequence.
C9_ReorderAssignsIndex ==
  [][\A t \in InFlight :
       ( /\ t.op = "updateStreakOrder" /\ t.num + 1 = Len(t.ids)
         /\ CopiesIn(t, tasks') < CopiesIn(t, tasks) /\ boot' = boot
         /\ {t.ids[j] : j \in 1..Len(t.ids)} = DOMAIN table
         /\ Len(t.ids) = Cardinality(DOMAIN table) ) =>
         /\ \A j \in 1..Len(t.ids) : table'[t.ids[j]].order = j - 1
         /\ (\A id \in DOMAIN table' : table'[id].starred = 0) =>
              [j \in 1..Len(t.ids) |-> SelectAll(table')[j].id] = t.ids]_vars

\* ---- C10 ----
\* C10: the stored count of every streak is at least 0 in every reachable
\* state.
C10_CountNonNegative == \A id \in DOMAIN table : table[id].count >= 0

\* a cancel issued from a stale row is in flight for a streak whose
\* continuation has already been cancelled
C10_Witness ==
  \E t \in InFlight :
    /\ t.op = "cancelTodayInput" /\ t.id \in DOMAIN table
    /\ t.num = 0
    /\ table[t.id].count = 0 /\ table[t.id].last_updated = 0

\* ---- C11 ----
\* C11: toggleStar writes the negation of the stored starred value: a
\* toggleStarred called for a stored streak, with no other toggle of that
\* streak in flight, issues the UPDATE that sets starred to the negation of the
\* value stored at the call (so that a second call restores the original).
C11_ToggleFlipsStored ==
  [][\A t \in BagToSet(tasks') :
       ( /\ t.op = "toggleStarred" /\ CopiesIn(t, tasks') > CopiesIn(t, tasks)
         /\ t.id \in DOMAIN table
         /\ ~\E u \in InFlight : u.op = "toggleStarred" /\ u.id = t.id ) =>
         t.num = 1 - table[t.id].starred]_vars

\* ---- C12 ----
\* C12: a create or rename whose name is empty after trimming changes nothing:
\* no statement is issued, no row is inserted and no name is replaced; and the
\* name of every stored streak is non-empty after trimming.
C12_EmptyNameRejected ==
  [][/\ (rejected' # rejected) =>
          UNCHANGED <<table, tasks, nextId, streaks, editingId, notice>>
     /\ \A id \in DOMAIN table' : trim(table'[id].name) # <<>>]_vars

\* an empty name was refused, and a streak is stored under a name that was
\* typed with a blank before it
C12_Witness ==
  /\ rejected
  /\ \E id \in DOMAIN table : table[id].name = <<"b">>

\* ---- C13 ----
\* this step runs the statement t
Ran(t) == boot' = boot /\ CopiesIn(t, tasks') < CopiesIn(t, tasks)

\* C13: the INSERT of a create adds exactly one streak, with the name given,
\* count = 0, last_updated empty, alive = 1 and starred = 0, and changes no
\* stored streak; it is the only statement of that create that adds a row, and
\* no other step adds a row.
C13_CreateAddsOne ==
  [][/\ \A t \in InFlight :
          (t.op = "insert" /\ Ran(t)) =>
            /\ Cardinality(Inserted) = 1
            /\ \A id \in Inserted :
                 /\ table'[id].id = id
                 /\ table'[id].name = t.name
                 /\ table'[id].count = 0
                 /\ table'[id].last_updated = 0
                 /\ table'[id].alive = 1
                 /\ table'[id].starred = 0
            /\ \A id \in DOMAIN table : id \in DOMAIN table' /\ table'[id] = table[id]
            /\ PendingInserts' = PendingInserts - 1
     /\ Inserted # {} => \E t \in InFlight : t.op = "insert" /\ Ran(t)]_vars

\* a streak was created beside one that had been starred or continued
C13_Witness ==
  /\ DOMAIN table = {1, 2}
  /\ table[1].starred = 1 \/ table[1].count = 1
  /\ table[2] = NewRow(2, table[2].name, table[2].order)
  /\ \E t \in InFlight : t.op = "fetchStreaks"

\* ---- C14 ----
\* C14: the DELETE of delete(id) removes the streak id and nothing else: every
\* other stored streak is kept unchanged, and when id is not stored (it was
\* deleted before) the table is unchanged; a deleted id is never stored again,
\* so that no later list holds it.
C14_DeleteRemovesOne ==
  [][/\ \A t \in InFlight :
          (t.op = "deleteStreak" /\ Ran(t)) =>
            /\ DOMAIN table' = DOMAIN table \ {t.id}
            /\ \A id \in DOMAIN table' : table'[id] = table[id]
            /\ \E u \in BagToSet(tasks') :
                 u.op = "fetchStreaks" /\ CopiesIn(u, tasks') > CopiesIn(u, tasks)
     /\ \A id \in 1..(nextId - 1) : id \notin DOMAIN table => id \notin DOMAIN table']_vars

\* a second delete of a streak is in flight after the first has removed it,
\* and another streak is stored
C14_Witness ==
  /\ \E t \in InFlight :
       t.op = "deleteStreak" /\ t.id \notin DOMAIN table /\ t.id < nextId
  /\ DOMAIN table # {}

\* ---- C15 ----
\* the statement t names the streak id
Names(t, id) == t.id = id \/ \E j \in 1..Len(t.ids) : t.ids[j] = id

\* C15: the UPDATE of a continue, cancelToday, rename or toggleStar, and each
\* UPDATE of a reorder, that names an id which is not stored changes no stored
\* streak; and a streak is never inserted under an id that a statement in
\* flight or a displayed row names, so a statement issued from the row of a
\* deleted streak never changes a streak created after the deletion.
C15_MissingIdIsNoOp ==
  [][/\ \A t \in InFlight :
          ( /\ t.op \in {"continueStreak", "cancelTodayInput", "saveEditStreak",
                         "toggleStarred"}
            /\ Ran(t) /\ t.id \notin DOMAIN table ) => table' = table
     /\ \A t \in InFlight :
          ( /\ t.op = "updateStreakOrder"
            /\ Ran(t) /\ t.ids[t.num + 1] \notin DOMAIN table ) => table' = table
     /\ \A id \in Inserted :
          /\ ~\E t \in InFlight : Names(t, id)
          /\ ~\E k \in 1..Len(streaks) : streaks[k].id = id]_vars

\* a statement issued from the row of a deleted streak is in flight while the
\* INSERT of a later create is
C15_Witness ==
  /\ \E t \in InFlight :
       /\ t.op \in {"continueStreak", "cancelTodayInput", "saveEditStreak",
                    "toggleStarred", "updateStreakOrder"}
       /\ \E id \in 1..(nextId - 1) : Names(t, id) /\ id \notin DOMAIN table
  /\ \E u \in InFlight : u.op = "insert"

\* ---- C16 ----
\* the start-up sweep of this launch has run
Swept ==
  boot = "done" /\ ~\E t \in InFlight : t.op = "checkStreakStatus"

\* C16: every list a SELECT of fetchStreaks returns is read from a table to
\* which the start-up sweep of this launch has been applied: a list read
\* before the sweep has run holds no streak that the sweep is to mark dead.
C16_ListAfterSweep ==
  [][\A t \in BagToSet(tasks') :
       ( /\ t.op = "setStreaks" /\ CopiesIn(t, tasks') > CopiesIn(t, tasks)
         /\ ~Swept ) =>
         \A i \in 1..Len(t.rows) : ~SweepMatches(t.rows[i], mountToday)]_vars

\* ---- C17 ----
\* what the screen shows: the list, the row in edit mode and the alert
Displayed == <<streaks, editingId, notice>>

\* C17: when the store fails to open, or a statement fails, the failure is
\* surfaced: the step on which the operation fails changes what the screen
\* shows (and issues no statement again).
C17_FailureSurfaced ==
  [][(FailOpen \/ FailSchema \/ FailStatement) =>
       /\ Displayed' # Displayed
       /\ \A t \in BagToSet(tasks') : CopiesIn(t, tasks') <= CopiesIn(t, tasks)]_vars

\* ---- C18 ----
\* C18: the stored count of a streak never exceeds the count it had when the
\* current day began by more than one.
C18_OnePerDay ==
  \A id \in DOMAIN table : table[id].count <= hist[id].dawn + 1

\* ---- C19 ----
\* the start-up chain has ended and no statement or result is in flight
Quiescent == boot = "done" /\ tasks = EmptyBag

\* C19: once every operation issued and every re-query it triggered has
\* completed, the displayed list is the list a SELECT of fetchStreaks returns
\* from the stored table: the same rows in the same order.
C19_DisplayIsListAll == Quiescent => streaks = SelectAll(table)

\* ---- C20 ----
Fields == {"id", "name", "count", "last_updated", "alive", "order", "starred"}

\* the columns the UPDATE of a handler sets
OwnFields(op) ==
  CASE op \in {"continueStreak", "cancelTodayInput"} -> {"count", "last_updated"}
    [] op = "saveEditStreak" -> {"name"}
    [] op = "toggleStarred" -> {"starred"}
    [] op = "updateStreakOrder" -> {"order"}
    [] op = "checkStreakStatus" -> {"alive"}

\* the streaks the UPDATE that t runs next can match
Matched(t) ==
  CASE t.op = "checkStreakStatus" -> DOMAIN table
    [] t.op = "updateStreakOrder" -> {t.ids[t.num + 1]}
    [] OTHER -> {t.id}

\* C20: the UPDATE of a continue or cancelToday changes only count and
\* last_updated, of a rename only name, of a toggleStar only starred, of a
\* reorder only order and of the sweep only alive, and only of the streaks it
\* names; every other field and every other streak is as it was, so an update
\* made by one of them is never overwritten by another's of a different field.
C20_OwnFieldsOnly ==
  [][\A t \in InFlight :
       ( /\ t.op \in {"continueStreak", "cancelTodayInput", "saveEditStreak",
                      "toggleStarred", "updateStreakOrder", "checkStreakStatus"}
         /\ Ran(t) ) =>
         /\ DOMAIN table' = DOMAIN table
         /\ \A id \in DOMAIN table :
              IF id \in Matched(t)
                THEN \A f \in Fields \ OwnFields(t.op) : table'[id][f] = table[id][f]
                ELSE table'[id] = table[id]]_vars

\* a star and a continue, both issued from the same displayed row, are both
\* stored
C20_Witness ==
  \E id \in DOMAIN table :
    /\ table[id].starred = 1 /\ table[id].count = 1
    /\ \E k \in 1..Len(streaks) :
         streaks[k].id = id /\ streaks[k].starred = 0 /\ streaks[k].count = 0

====
